---- MODULE Spec2Model ----
(***************************************************************************)
(* dramavis: the analysis of one play (DramaAnalyzer, src/dramalyzer.py).  *)
(* A play is an ordered sequence of segments, each the set of characters   *)
(* speaking in it, and the list of declared personae.  The constructor     *)
(* builds the interaction graph, the per-character table `centralities`   *)
(* and the one-row summary `graph_metrics`.                                *)
(*                                                                         *)
(* Numbers that are fractions in the program (closeness, betweenness,      *)
(* averaged ranks, change rates) are exact rationals [num, den] in        *)
(* lowest terms, den > 0.  networkx calls are modelled by what networkx    *)
(* 1.x computes (the code uses G.degree().values() and                     *)
(* connected_component_subgraphs, which exist only there).                 *)
(***************************************************************************)
EXTENDS Integers, Sequences, FiniteSets, TLC

\* Longest segment sequence explored.
MaxSegs == 3

\* Longest list of declared characters explored.
MaxPersonae == 3

\* Character identifiers of the plays explored.  Identifiers are arbitrary
\* strings taken from the document; "2" is one that is also the decimal
\* string of a segment index, and "SEVERAL" one that is also the string the
\* code returns for a tie.
Chars == {"A", "B", "2", "SEVERAL"}

\* dramalyzer.py:120  self.randomization = 1000
DefaultRandomization == 1000
\* dramalyzer.py:359  self.randomization = 50
FallbackRandomization == 50
\* dramalyzer.py:450  if j > 50
RetryLimit == 50

\* the sentinels: the string "NaN" the code stores for an undefined number,
\* the string "SEVERAL" for a tie, and Python's None
NaN == [sentinel |-> "NaN"]
SEVERAL == "SEVERAL"
None == [sentinel |-> "None"]

\* a call that raises is modelled by the exception; one that returns a
\* string, a list or a set returns it as Ok(value), one that returns a number
\* or a sentinel returns that
Raise(exception) == [raise |-> exception]

Ok(value) == [ok |-> value]

Raises(x) == "raise" \in DOMAIN x

Unwrap(x) == IF "ok" \in DOMAIN x THEN x.ok ELSE x

NoFault == "NoFault"

----------------------------------------------------------------------------
(* Exact rationals *)

RECURSIVE GCD(_, _)
GCD(a, b) == IF b = 0 THEN a ELSE GCD(b, a % b)

Rat(n, d) == LET g == GCD(n, d) IN [num |-> n \div g, den |-> d \div g]

Int2Rat(n) == [num |-> n, den |-> 1]

RatAdd(x, y) == Rat(x.num * y.den + y.num * x.den, x.den * y.den)

RatMul(x, y) == Rat(x.num * y.num, x.den * y.den)

RatDivInt(x, k) == Rat(x.num, x.den * k)

RatLess(x, y) == x.num * y.den < y.num * x.den

RECURSIVE RatSum(_, _)
RatSum(f, S) ==
  IF S = {} THEN Int2Rat(0)
  ELSE LET x == CHOOSE x \in S : TRUE IN RatAdd(f[x], RatSum(f, S \ {x}))

RECURSIVE IntSum(_, _)
IntSum(f, S) ==
  IF S = {} THEN 0
  ELSE LET x == CHOOSE x \in S : TRUE IN f[x] + IntSum(f, S \ {x})

----------------------------------------------------------------------------
(* Graphs: [node: set, weight: function from 2-element sets {u,v} of nodes *)
(* to the edge's weight].                                                  *)

EmptyGraph == [node |-> {}, weight |-> <<>>]

Edges(G) == DOMAIN G.weight

Nbrs(G, u) == {v \in G.node \ {u} : {u, v} \in Edges(G)}

Degree(G, u) == Cardinality(Nbrs(G, u))

\* nx.single_source_shortest_path_length: breadth-first levels from the source
RECURSIVE BFS(_, _, _, _)
BFS(G, frontier, dist, d) ==
  LET next == (UNION {Nbrs(G, u) : u \in frontier}) \ DOMAIN dist
  IN IF next = {} THEN dist
     ELSE BFS(G, next, dist @@ [v \in next |-> d + 1], d + 1)

single_source_shortest_path_length(G, s) == BFS(G, {s}, [v \in {s} |-> 0], 0)

\* the all-pairs table, computed once per graph
AllDist(G) == [s \in G.node |-> single_source_shortest_path_length(G, s)]

\* nx.connected_components
Components(G) == {DOMAIN single_source_shortest_path_length(G, s) : s \in G.node}

number_connected_components(G) == Cardinality(Components(G))

\* nx.is_connected for a graph with nodes (the null graph raises instead)
is_connected(G) == number_connected_components(G) = 1

subgraph(G, S) ==
  [node |-> S,
   weight |-> [e \in {e \in Edges(G) : e \subseteq S} |-> G.weight[e]]]

----------------------------------------------------------------------------
(* networkx metrics used by the analysis.  A call that raises is modelled   *)
(* by the name of what it raises.                                           *)

\* nx.average_shortest_path_length (1.x): the null graph has no connectivity
\* (NetworkXPointlessConcept), a disconnected graph raises NetworkXError, a
\* single node divides 0.0 by n*(n-1) = 0.
average_shortest_path_length(G) ==
  LET n == Cardinality(G.node)
      D == AllDist(G)
      tot == IntSum([s \in G.node |-> IntSum(D[s], DOMAIN D[s])], G.node)
  IN IF n = 0 THEN Raise("NetworkXPointlessConcept")
     ELSE IF ~is_connected(G) THEN Raise("NetworkXError")
     ELSE IF n = 1 THEN Raise("ZeroDivisionError")
     ELSE Rat(tot, n * (n - 1))

\* nx.closeness_centrality (normalized): (r/totsp) * (r/(n-1)) with r the
\* number of other nodes reached, 0.0 for a node that reaches nothing
closeness_centrality(G) ==
  LET n == Cardinality(G.node)
      D == AllDist(G)
  IN [v \in G.node |->
        LET sp == D[v]
            totsp == IntSum(sp, DOMAIN sp)
            r == Cardinality(DOMAIN sp) - 1
        IN IF totsp > 0 /\ n > 1
           THEN RatMul(Rat(r, totsp), Rat(r, n - 1))
           ELSE Int2Rat(0)]

\* number of shortest s-t paths (t reachable from s)
RECURSIVE NumPaths(_, _, _, _)
NumPaths(G, D, s, t) ==
  IF s = t THEN 1
  ELSE LET P == {u \in Nbrs(G, t) : u \in DOMAIN D[s] /\ D[s][u] = D[s][t] - 1}
       IN IntSum([u \in P |-> NumPaths(G, D, s, u)], P)

\* nx.betweenness_centrality (normalized, unweighted): Brandes' accumulation
\* over every source, scaled by 1/((n-1)(n-2)) when n > 2 and unscaled otherwise
betweenness_centrality(G) ==
  LET n == Cardinality(G.node)
      D == AllDist(G)
      Through(v) == {p \in G.node \X G.node :
                       /\ p[1] # p[2] /\ p[1] # v /\ p[2] # v
                       /\ p[2] \in DOMAIN D[p[1]] /\ v \in DOMAIN D[p[1]]
                       /\ D[p[1]][v] + D[v][p[2]] = D[p[1]][p[2]]}
      Share(v) == [p \in Through(v) |->
                     Rat(NumPaths(G, D, p[1], v) * NumPaths(G, D, v, p[2]),
                         NumPaths(G, D, p[1], p[2]))]
  IN [v \in G.node |->
        LET raw == RatSum(Share(v), Through(v))
        IN IF n <= 2 THEN raw ELSE RatDivInt(raw, (n - 1) * (n - 2))]

\* nx.degree
degree(G) == [v \in G.node |-> Degree(G, v)]

\* nx.average_clustering: mean over the nodes of triangles/(d(d-1)/2), a
\* node of degree < 2 counting 0; the null graph divides by zero
average_clustering(G) ==
  LET n == Cardinality(G.node)
      Tri(v) == Cardinality({e \in Edges(G) : e \subseteq Nbrs(G, v)})
      C == [v \in G.node |->
              LET d == Degree(G, v)
              IN IF d < 2 THEN Int2Rat(0) ELSE Rat(2 * Tri(v), d * (d - 1))]
  IN IF n = 0 THEN Raise("ZeroDivisionError")
     ELSE RatDivInt(RatSum(C, G.node), n)

\* nx.density
density(G) ==
  LET n == Cardinality(G.node)
      m == Cardinality(Edges(G))
  IN IF m = 0 \/ n <= 1 THEN Int2Rat(0) ELSE Rat(2 * m, n * (n - 1))

----------------------------------------------------------------------------
(* create_graph: the bipartite graph of segment nodes and character nodes, *)
(* and its projection on the character side.                               *)
(* B is [attr: node -> bipartite attribute, adj: node -> neighbours].      *)

EmptyB == [attr |-> <<>>, adj |-> <<>>]

\* B.add_node(n, bipartite=a), which the code calls only for a node that is
\* not yet in B.nodes()
add_node(B, n, a) ==
  IF n \in DOMAIN B.attr THEN B
  ELSE [attr |-> (n :> a) @@ B.attr, adj |-> (n :> {}) @@ B.adj]

\* B.add_edge(u, v), both already nodes
add_edge(B, u, v) ==
  [B EXCEPT !.adj = [x \in DOMAIN B.adj |->
                       IF x = u /\ x = v THEN B.adj[x] \cup {u}
                       ELSE IF x = u THEN B.adj[x] \cup {v}
                       ELSE IF x = v THEN B.adj[x] \cup {u}
                       ELSE B.adj[x]]]

\* source = str(i) for the i-th segment, i counted from 0
SourceOf(i) == ToString(i)

\* the inner loop: for target in targets
RECURSIVE AddTargets(_, _, _)
AddTargets(B, source, targets) ==
  IF targets = {} THEN B
  ELSE LET target == CHOOSE t \in targets : TRUE
       IN AddTargets(add_edge(add_node(B, target, 1), source, target),
                     source, targets \ {target})

\* the outer loop: for i, speakers in enumerate(speakerset), from position k
RECURSIVE BuildB(_, _, _)
BuildB(B, speakerset, k) ==
  IF k > Len(speakerset) THEN B
  ELSE LET source == SourceOf(k - 1)
       IN BuildB(AddTargets(add_node(B, source, 0), source, speakerset[k]),
                 speakerset, k + 1)

\* nx.bipartite.weighted_projected_graph(B, nodes): the nodes, and for each
\* u of them an edge to every neighbour-of-a-neighbour v # u, weighted by the
\* number of common neighbours (add_edge adds v when it is not yet a node)
weighted_projected_graph(B, nodes) ==
  LET nbrs2(u) == (UNION {B.adj[nbr] : nbr \in B.adj[u]}) \ {u}
      E == {{u, v} : u \in nodes, v \in UNION {nbrs2(x) : x \in nodes}}
      EE == {e \in E : \E u \in nodes : \E v \in nbrs2(u) : e = {u, v}}
  IN [node |-> nodes \cup UNION EE,
      weight |-> [e \in EE |->
                    LET u == CHOOSE u \in e : TRUE
                        v == CHOOSE v \in e : v # u
                    IN Cardinality(B.adj[u] \cap B.adj[v])]]

create_graph(segs) ==
  LET B == BuildB(EmptyB, segs, 1)
      scene_nodes == {n \in DOMAIN B.attr : B.attr[n] = 0}
      person_nodes == DOMAIN B.attr \ scene_nodes
  IN weighted_projected_graph(B, person_nodes)

----------------------------------------------------------------------------
(* The character table `centralities`: [index: the row labels, col: column *)
(* name -> (row -> value)].  A column name is the sequence of its          *)
(* underscore-separated words, so that "degree_rank" is <<"degree",        *)
(* "rank">> and c.endswith("rank") looks at the last word.                 *)

Metrics == {"degree", "closeness", "betweenness", "frequency"}

ColOf(metric) == <<metric>>

\* metric + "_rank"
RankColOf(metric) == <<metric, "rank">>

avg_centrality_rank == <<"avg", "centrality", "rank">>

composite_centrality == <<"composite", "centrality">>

endswith(c, word) == c[Len(c)] = word

\* self.centralities[name] = values  (a new or replaced column)
SetColumn(T, name, values) ==
  [T EXCEPT !.col = [c \in DOMAIN T.col \cup {name} |->
                       IF c = name THEN values ELSE T.col[c]]]

\* the maximum of a non-empty set of rationals
RatMax(S) == CHOOSE x \in S : \A y \in S : ~RatLess(x, y)

RatMin(S) == CHOOSE x \in S : \A y \in S : ~RatLess(y, x)

\* numpy.nan, the cell of a row that .loc added, in the columns the
\* assignment did not set
NA == [sentinel |-> "nan"]

\* the rows of a column that hold a value
Valued(values) == {r \in DOMAIN values : values[r] # NA}

\* x + y and x / k on cells: nan with a nan operand
CellAdd(x, y) == IF x = NA \/ y = NA THEN NA ELSE RatAdd(x, y)

CellDivInt(x, k) == IF x = NA THEN NA ELSE RatDivInt(x, k)

\* sum(axis=1) and max() leave the nan cells out
SkipNA(x) == IF x = NA THEN Int2Rat(0) ELSE x

\* a ranking that counts rows instead of distinct values (method='min'),
\* leaving gaps after ties
rank_min_descending(values) ==
  [r \in DOMAIN values |->
     IF values[r] = NA THEN NA
     ELSE Int2Rat(1 + Cardinality({q \in Valued(values) :
                                     RatLess(values[r], values[q])}))]

\* Series.rank(method='dense', ascending=False): 1 for the largest value,
\* the next distinct value one more; a nan cell keeps nan as its rank
rank_dense_descending(values) ==
  LET distinct == {values[r] : r \in Valued(values)}
  IN [r \in DOMAIN values |->
        IF values[r] = NA THEN NA
        ELSE Int2Rat(1 + Cardinality({v \in distinct : RatLess(values[r], v)}))]

\* Counter(chain.from_iterable(self.segments)): every segment lists each of
\* its characters once
Counter(segs) ==
  [ch \in UNION {segs[k] : k \in DOMAIN segs} |->
     Cardinality({k \in DOMAIN segs : ch \in segs[k]})]

----------------------------------------------------------------------------
(* Temporal measures over the segment sequence *)

\* get_drama_change_rate: one value per adjacent pair, or the exception of
\* the first pair whose union is empty
change_rate_of(x, y) ==
  LET s == x
      t == y
      u == s \cap t
      ds == Cardinality(s) - Cardinality(u)
      dt == Cardinality(u) - Cardinality(t)
      cr == (IF ds < 0 THEN -ds ELSE ds) + (IF dt < 0 THEN -dt ELSE dt)
      cr_sum == Cardinality(s \cup t)
  IN IF cr_sum = 0 THEN Raise("ZeroDivisionError") ELSE Rat(cr, cr_sum)

get_drama_change_rate(segs) ==
  LET N == Len(segs)
      rates == [i \in 1..(IF N = 0 THEN 0 ELSE N - 1) |->
                  change_rate_of(segs[i], segs[i + 1])]
  IN IF \E i \in DOMAIN rates : Raises(rates[i])
     THEN Raise("ZeroDivisionError")
     ELSE Ok(rates)

\* get_characters_all_in_index without its i += 1: the position counted
\* from 0
get_characters_all_in_index_from_zero(segs, num_chars_total) ==
  LET appeared(i) == UNION {segs[k] : k \in 1..i}
      hits == {i \in 1..Len(segs) : Cardinality(appeared(i)) >= num_chars_total}
  IN IF hits = {} THEN None
     ELSE Rat((CHOOSE i \in hits : \A h \in hits : i <= h) - 1, Len(segs))

\* get_characters_all_in_index
get_characters_all_in_index(segs, num_chars_total) ==
  LET appeared(i) == UNION {segs[k] : k \in 1..i}
      hits == {i \in 1..Len(segs) : Cardinality(appeared(i)) >= num_chars_total}
  IN IF hits = {} THEN None
     ELSE Rat(CHOOSE i \in hits : \A h \in hits : i <= h, Len(segs))

\* get_final_scene_size
get_final_scene_size(segs, persons) ==
  IF Len(segs) = 0 THEN Raise("IndexError")
  ELSE IF persons = 0 THEN Raise("ZeroDivisionError")
  ELSE Rat(Cardinality(segs[Len(segs)]), persons)

----------------------------------------------------------------------------
(* Rank aggregation over the character table *)

\* get_central_character with every derived column averaged, the composite
\* centrality included
get_central_character_all_derived(T) ==
  LET ranks == {c \in DOMAIN T.col : endswith(c, "rank") \/ endswith(c, "centrality")}
      avg_ranks == [r \in T.index |->
                      RatDivInt(RatSum([c \in ranks |-> SkipNA(T.col[c][r])], ranks),
                                Cardinality(ranks))]
      min_rank == RatMin({avg_ranks[r] : r \in T.index})
      central_chars == {r \in T.index : avg_ranks[r] = min_rank}
  IN IF T.index = {} THEN Raise("ValueError")
     ELSE IF Cardinality(central_chars) = 1
          THEN Ok(CHOOSE r \in central_chars : TRUE)
          ELSE Ok(SEVERAL)

\* get_central_character
get_central_character(T) ==
  LET ranks == {c \in DOMAIN T.col : endswith(c, "rank")}
      avg_ranks == [r \in T.index |->
                      RatDivInt(RatSum([c \in ranks |-> SkipNA(T.col[c][r])], ranks),
                                Cardinality(ranks))]
      min_rank == RatMin({avg_ranks[r] : r \in T.index})
      central_chars == {r \in T.index : avg_ranks[r] = min_rank}
  IN IF T.index = {} THEN Raise("ValueError")
     ELSE IF Cardinality(central_chars) = 1
          THEN Ok(CHOOSE r \in central_chars : TRUE)
          ELSE Ok(SEVERAL)

\* the loop body with cent_max taken from the closeness column whatever the
\* metric
top_ranked_by_closeness_maximum(T, metric) ==
  LET column == T.col[ColOf("closeness")]
      top_char == IF Valued(column) = {} THEN {}
                  ELSE LET cent_max == RatMax({column[r] : r \in Valued(column)})
                       IN {r \in T.index : column[r] = cent_max}
  IN IF Cardinality(top_char) # 1 THEN SEVERAL
     ELSE CHOOSE r \in top_char : TRUE

\* the loop body of get_top_ranked_chars for one metric
top_ranked_of(T, metric) ==
  LET column == T.col[ColOf(metric)]
      top_char == IF Valued(column) = {} THEN {}
                  ELSE LET cent_max == RatMax({column[r] : r \in Valued(column)})
                       IN {r \in T.index : T.col[ColOf("closeness")][r] = cent_max}
  IN IF Cardinality(top_char) # 1 THEN SEVERAL
     ELSE CHOOSE r \in top_char : TRUE

\* get_top_ranked_chars
get_top_ranked_chars(T) ==
  LET central == get_central_character(T)
  IN IF Raises(central) THEN central
     ELSE Ok([k \in Metrics \cup {"central"} |->
                IF k = "central" THEN central.ok ELSE top_ranked_of(T, k)])

\* get_central_character_entry
get_central_character_entry(segs, central_character) ==
  LET hits == {i \in 1..Len(segs) : central_character \in segs[i]}
  IN IF hits = {} THEN None
     ELSE Rat(CHOOSE i \in hits : \A h \in hits : i <= h, Len(segs))

----------------------------------------------------------------------------
(* The null-model sampler's random draws.  nx.gnm_random_graph(n, e)       *)
(* returns some simple graph on n nodes with min(e, n(n-1)/2) edges; what  *)
(* the sampler does next depends only on whether the drawn graph lets      *)
(* nx.average_shortest_path_length and nx.average_clustering return.       *)

MaxEdges(n) == (n * (n - 1)) \div 2

\* some graph drawn for (n, e) is connected, with at least two nodes
CanDrawConnected(n, e) == n >= 2 /\ e >= n - 1

\* some graph drawn for (n, e) makes average_shortest_path_length raise:
\* the null graph, a single node, or a disconnected graph (all e edges fit
\* among n-1 of the nodes)
CanDrawFailing(n, e) == n <= 1 \/ e <= MaxEdges(n - 1)

\* nx.average_clustering(R) raises ZeroDivisionError exactly for the null graph
ClusteringRaises(n) == n = 0

----------------------------------------------------------------------------
(* The steps of DramaAnalyzer.__init__ as functions of the object's fields *)

\* The label of the row __init__ makes for the k-th entry of self.personae:
\* the entry itself, a dictionary {name: aliases}, which equals no string and
\* so no character name, node or sentinel.
DeclaredRow(k) == "personae[" \o ToString(k - 1) \o "]"

\* __init__: pd.DataFrame(index = [p for p in self.personae]), one row for
\* each entry
NewTable(persons) ==
  [index |-> {DeclaredRow(k) : k \in 1..Len(persons)}, col |-> <<>>]

\* .loc[label, column] = value looks the label up in the index, which hashes
\* the labels of the index: a dictionary is not hashable, and whether the
\* lookup raises TypeError or goes on to add the row depends on the pandas
\* that runs.  True when a lookup with such an index takes place.
LooksUpAmongDictionaries(persons, labels) == Len(persons) > 0 /\ labels # {}

\* self.centralities[column] = 0: the column is 0 in every row there is
ZeroColumn(T, column) == SetColumn(T, column, [r \in T.index |-> Int2Rat(0)])

\* lines 388-389: the three columns of 0, which the table has when the first
\* lookup raises
analyze_characters_zeroed(T) ==
  ZeroColumn(ZeroColumn(ZeroColumn(T, ColOf("betweenness")), ColOf("degree")),
             ColOf("closeness"))

\* analyze_characters: three columns of 0, then one .loc assignment per node
\* of G for each of them (.loc adds the row of a label that is not yet in
\* the index)
analyze_characters(T, graph) ==
  LET idx == T.index \cup graph.node
      bc == betweenness_centrality(graph)
      dg == degree(graph)
      cc == closeness_centrality(graph)
      T1 == SetColumn([T EXCEPT !.index = idx], ColOf("betweenness"),
              [r \in idx |-> IF r \in graph.node THEN bc[r] ELSE Int2Rat(0)])
      T2 == SetColumn(T1, ColOf("degree"),
              [r \in idx |-> IF r \in graph.node THEN Int2Rat(dg[r]) ELSE Int2Rat(0)])
  IN SetColumn(T2, ColOf("closeness"),
       [r \in idx |-> IF r \in graph.node THEN cc[r] ELSE Int2Rat(0)])

\* lines 390-395: the first .loc lookup, made when G has a node
analyze_characters_raises(persons, graph) ==
  IF LooksUpAmongDictionaries(persons, graph.node) THEN {"TypeError"} ELSE {}

\* line 175: a lookup that raises raised in analyze_characters already
\* unless G has no node
get_character_frequencies_raises(persons, graph, segs) ==
  IF graph.node = {} /\ LooksUpAmongDictionaries(persons, DOMAIN Counter(segs))
  THEN {"TypeError"} ELSE {}

\* line 172: the column of 0, which the table has when the lookup of line
\* 175 raises
get_character_frequencies_zeroed(T) == ZeroColumn(T, ColOf("frequency"))

\* get_character_frequencies: a column of 0, then one .loc assignment per
\* character of the segments; the row .loc adds for a character that is no
\* node of G has nan in the columns of analyze_characters
get_character_frequencies(T, segs) ==
  LET frequencies == Counter(segs)
      idx == T.index \cup DOMAIN frequencies
      T1 == [index |-> idx,
             col |-> [c \in DOMAIN T.col |->
                        [r \in idx |-> IF r \in T.index THEN T.col[c][r] ELSE NA]]]
  IN SetColumn(T1, ColOf("frequency"),
       [r \in idx |-> IF r \in DOMAIN frequencies
                      THEN Int2Rat(frequencies[r]) ELSE Int2Rat(0)])

\* get_character_ranks
RECURSIVE AddRanks(_, _)
AddRanks(T, metrics) ==
  IF metrics = {} THEN T
  ELSE LET metric == CHOOSE m \in metrics : TRUE
       IN AddRanks(SetColumn(T, RankColOf(metric),
                             rank_dense_descending(T.col[ColOf(metric)])),
                   metrics \ {metric})

get_character_ranks(T) == AddRanks(T, Metrics)

\* DataFrame.apply(f, axis=1) on a table without rows: pandas up to 1.5
\* calls f on an empty Series, swallows its KeyError and returns a copy of
\* the frame, and the assignment of a frame to one column raises
\* ValueError; a pandas that returns an empty Series adds an empty column.
\* On a table with rows apply hands f each row as a Series named by the
\* row's label: for the row of a declared entry the name is a dictionary,
\* which a pandas that wants a hashable Series name rejects with TypeError.
\* Both raise before the column is assigned.
get_centrality_ranks_raises(T, persons) ==
  (IF T.index = {} THEN {"ValueError"} ELSE {})
  \cup (IF \E k \in DOMAIN persons : DeclaredRow(k) \in T.index
        THEN {"TypeError"} ELSE {})

\* get_centrality_ranks
get_centrality_ranks(T) ==
  SetColumn(T, avg_centrality_rank,
    [r \in T.index |->
       CellDivInt(CellAdd(CellAdd(T.col[RankColOf("degree")][r],
                                  T.col[RankColOf("closeness")][r]),
                          T.col[RankColOf("betweenness")][r]), 3)])

\* get_central_characters
get_central_characters(T) ==
  SetColumn(T, composite_centrality,
    [r \in T.index |->
       CellDivInt(CellAdd(T.col[RankColOf("frequency")][r],
                          T.col[avg_centrality_rank][r]), 2)])

\* the components max(nx.connected_component_subgraphs(G), key=len) can
\* return: max keeps the first of the largest, in the graph's node order
LargestComponents(graph) ==
  {cmp \in Components(graph) :
     \A other \in Components(graph) : Cardinality(other) <= Cardinality(cmp)}

\* except: ... = "NaN"
OrNaN(x) == IF Raises(x) THEN NaN ELSE x

\* the budget reduced in every except branch of the path length, not only
\* in the NetworkXError one
budget_reduced_on_any_error(apl, randomization0) ==
  IF Raises(apl) THEN FallbackRandomization ELSE randomization0

\* lines 354-367: self.randomization after the path length was tried; only
\* the except nx.NetworkXError branch assigns it
budget_after_path_length(apl, randomization0) ==
  IF apl = Raise("NetworkXError") THEN FallbackRandomization ELSE randomization0

\* analyze_graph: the values dictionary and self.randomization afterwards;
\* `giant` is the component the fallback picked
analyze_graph(graph, randomization0, giant) ==
  LET nn == Cardinality(graph.node)
      apl == average_shortest_path_length(graph)
      fallback == apl = Raise("NetworkXError")
  IN [values |->
        [charcount |-> nn,
         edgecount |-> Cardinality(Edges(graph)),
         maxdegree |-> IF nn = 0 THEN NaN
                       ELSE CHOOSE d \in {Degree(graph, v) : v \in graph.node} :
                              \A v \in graph.node : Degree(graph, v) <= d,
         avgdegree |-> IF nn = 0 THEN NaN
                       ELSE Rat(IntSum(degree(graph), graph.node), nn),
         density |-> density(graph),
         avgpathlength |-> IF fallback
                           THEN OrNaN(average_shortest_path_length(subgraph(graph, giant)))
                           ELSE OrNaN(apl),
         clustering_coefficient |-> OrNaN(average_clustering(graph)),
         connected_components |-> number_connected_components(graph)],
      randomization |-> budget_after_path_length(apl, randomization0)]

\* The sampler's two accumulators hold sums of values networkx computed on
\* random graphs; the model keeps of such a sum the number of values added
\* to 0, and of a quotient the sum and the count it was divided by.
SumOf(k) == [sum_of |-> k]

IsNumber(x) == "sum_of" \in DOMAIN x

\* x / count at the end of randomize_graph, "NaN" when the division raises
\* (ZeroDivisionError for count = 0, TypeError for x = "NaN")
DivideOrNaN(x, count) ==
  IF IsNumber(x) /\ count # 0 THEN [sum_of |-> x.sum_of, over |-> count] ELSE NaN

\* randomize_graph as one step of get_graph_metrics: the pairs
\* (randavgpathl, randcluster) its loop can end with
randomize_graph(nn, ee, samples) ==
  LET cluster == IF ClusteringRaises(nn) THEN DivideOrNaN(SumOf(0), 0)
                 ELSE DivideOrNaN(SumOf(samples), samples)
      pathl == (IF CanDrawConnected(nn, ee) \/ samples = 0
                THEN {DivideOrNaN(SumOf(samples), samples)} ELSE {})
               \cup (IF CanDrawFailing(nn, ee) /\ samples > 0 THEN {NaN} ELSE {})
  IN {<<p, cluster>> : p \in pathl}

----------------------------------------------------------------------------
(* State *)

VARIABLES
  segments,       \* self.segments: the sequence of segments, each a set
  personae,       \* self.personae: the name of each declared character, in
                  \* the order of the file (the entry {name: aliases} without
                  \* its aliases, which the reader has resolved)
  pc,             \* the next call of __init__ / get_graph_metrics
  G,              \* self.G
  centralities,   \* self.centralities
  randomization,  \* self.randomization
  graph_metrics,  \* the dictionary get_graph_metrics fills
  top_ranked,     \* what get_top_ranked_chars returned, None before its call
  fault,          \* the exception that ended the construction, None if none
  frame           \* the local variables of a running randomize_graph

vars == <<segments, personae, pc, G, centralities, randomization,
          graph_metrics, top_ranked, fault, frame>>

NoFrame == [at |-> "idle"]

\* the names in the order the lists of declared characters are drawn in
CharOrder == <<"A", "B", "2", "SEVERAL">>

\* the lists of up to MaxPersonae declared characters, two of which may bear
\* the same name; the order of the list changes no result, so one order of
\* each list is drawn
PersonaeLists ==
  {[k \in DOMAIN at |-> CharOrder[at[k]]] :
     at \in {f \in UNION {[1..len -> DOMAIN CharOrder] : len \in 0..MaxPersonae} :
               \A i \in DOMAIN f : \A j \in DOMAIN f : i <= j => f[i] <= f[j]}}

Names(persons) == {persons[k] : k \in DOMAIN persons}

\* every play up to MaxSegs segments over Chars; the corpus reader maps every
\* speaker to the name of a declared character (charmap), so the speakers are
\* among the declared names
Plays ==
  {p \in [segments : UNION {[1..len -> SUBSET Chars] : len \in 0..MaxSegs},
          personae : PersonaeLists] :
     \A k \in DOMAIN p.segments : p.segments[k] \subseteq Names(p.personae)}

\* the fields as __init__ sets them before its first call (lines 117-121)
Constructing(play) ==
  /\ segments = play.segments
  /\ personae = play.personae
  /\ pc = "create_graph"
  /\ G = EmptyGraph
  /\ centralities = NewTable(play.personae)
  /\ randomization = DefaultRandomization
  /\ graph_metrics = <<>>
  /\ top_ranked = None
  /\ fault = NoFault
  /\ frame = NoFrame

Init == \E play \in Plays : Constructing(play)

n_personae == Len(personae)

num_chars_total == Len(personae)

\* one call of __init__ that only rewrites the table: it returns with the
\* table T, or ends the construction with one of the exceptions it can
\* raise, the table being what the call had made of it when it raised
TableStep(here, next, T, exceptions, raised) ==
  /\ pc = here
  /\ \/ /\ centralities' = T
        /\ pc' = next
        /\ UNCHANGED fault
     \/ /\ \E exception \in exceptions : fault' = exception
        /\ pc' = "fault"
        /\ centralities' = raised
  /\ UNCHANGED <<segments, personae, G, randomization, graph_metrics,
                 top_ranked, frame>>

\* graph_metrics[key] = value
Put(key, value) == graph_metrics' = (key :> value) @@ graph_metrics

\* one assignment of get_graph_metrics; an exception ends the construction
MetricStep(here, next, key, value) ==
  /\ pc = here
  /\ IF Raises(value)
     THEN /\ fault' = value.raise
          /\ pc' = "fault"
          /\ UNCHANGED graph_metrics
     ELSE /\ Put(key, Unwrap(value))
          /\ pc' = next
          /\ UNCHANGED fault
  /\ UNCHANGED <<segments, personae, G, centralities, randomization,
                 top_ranked, frame>>

CreateGraph ==
  /\ pc = "create_graph"
  /\ G' = create_graph(segments)
  /\ pc' = "analyze_characters"
  /\ UNCHANGED <<segments, personae, centralities, randomization,
                 graph_metrics, top_ranked, fault, frame>>

AnalyzeCharacters ==
  TableStep("analyze_characters", "get_character_frequencies",
            analyze_characters(centralities, G),
            analyze_characters_raises(personae, G),
            analyze_characters_zeroed(centralities))

GetCharacterFrequencies ==
  TableStep("get_character_frequencies", "get_character_ranks",
            get_character_frequencies(centralities, segments),
            get_character_frequencies_raises(personae, G, segments),
            get_character_frequencies_zeroed(centralities))

GetCharacterRanks ==
  TableStep("get_character_ranks", "get_centrality_ranks",
            get_character_ranks(centralities), {}, centralities)

GetCentralityRanks ==
  TableStep("get_centrality_ranks", "get_central_characters",
            get_centrality_ranks(centralities),
            get_centrality_ranks_raises(centralities, personae), centralities)

GetCentralCharacters ==
  TableStep("get_central_characters", "analyze_graph",
            get_central_characters(centralities), {}, centralities)

\* get_graph_metrics, line 255-256
AnalyzeGraph ==
  /\ pc = "analyze_graph"
  /\ \E giant \in (IF G.node = {} THEN {{}} ELSE LargestComponents(G)) :
       LET out == analyze_graph(G, randomization, giant)
       IN /\ graph_metrics' = out.values
          /\ randomization' = out.randomization
  /\ pc' = "randomize_graph"
  /\ UNCHANGED <<segments, personae, G, centralities, top_ranked, fault, frame>>

\* get_graph_metrics, line 257
RandomizeGraph ==
  /\ pc = "randomize_graph"
  /\ \E out \in randomize_graph(graph_metrics.charcount,
                                graph_metrics.edgecount, randomization) :
       graph_metrics' = ("average_path_length_random" :> out[1])
                        @@ ("clustering_coefficient_random" :> out[2])
                        @@ graph_metrics
  /\ pc' = "get_characters_all_in_index"
  /\ UNCHANGED <<segments, personae, G, centralities, randomization,
                 top_ranked, fault, frame>>

\* get_graph_metrics, line 266
GetCharactersAllInIndex ==
  MetricStep("get_characters_all_in_index", "get_drama_change_rate_metrics",
             "all_in_index",
             get_characters_all_in_index(segments, num_chars_total))

\* get_graph_metrics, line 267: the change rates, of which the summary keeps
\* the mean (numpy.mean of no values is nan) and the standard deviation; the
\* model keeps the rates themselves
GetDramaChangeRateMetrics ==
  MetricStep("get_drama_change_rate_metrics", "get_final_scene_size",
             "change_rates", get_drama_change_rate(segments))

\* get_graph_metrics, line 268
GetFinalSceneSize ==
  MetricStep("get_final_scene_size", "get_central_character",
             "final_scene_size_index",
             get_final_scene_size(segments, n_personae))

\* get_graph_metrics, line 269
GetCentralCharacter ==
  MetricStep("get_central_character", "get_central_character_entry",
             "central_character", get_central_character(centralities))

\* get_graph_metrics, line 270
GetCentralCharacterEntry ==
  MetricStep("get_central_character_entry", "get_characters_last_in",
             "central_character_entry_index",
             LET central == get_central_character(centralities)
             IN IF Raises(central) THEN central
                ELSE get_central_character_entry(segments, central.ok))

\* get_graph_metrics, line 271: ",".join of the last segment, kept as the set
GetCharactersLastIn ==
  MetricStep("get_characters_last_in", "constructed",
             "characters_last_in",
             IF Len(segments) = 0 THEN Raise("IndexError")
             ELSE Ok(segments[Len(segments)]))

\* CorpusAnalyzer.get_central_characters calls get_top_ranked_chars on each
\* constructed drama
GetTopRankedChars ==
  /\ pc = "constructed"
  /\ top_ranked = None
  /\ top_ranked' = get_top_ranked_chars(centralities)
  /\ UNCHANGED <<segments, personae, pc, G, centralities, randomization,
                 graph_metrics, fault, frame>>

Next ==
  \/ CreateGraph
  \/ AnalyzeCharacters
  \/ GetCharacterFrequencies
  \/ GetCharacterRanks
  \/ GetCentralityRanks
  \/ GetCentralCharacters
  \/ AnalyzeGraph
  \/ RandomizeGraph
  \/ GetCharactersAllInIndex
  \/ GetDramaChangeRateMetrics
  \/ GetFinalSceneSize
  \/ GetCentralCharacter
  \/ GetCentralCharacterEntry
  \/ GetCharactersLastIn
  \/ GetTopRankedChars

Spec == Init /\ [][Next]_vars

----------------------------------------------------------------------------
(* randomize_graph step by step: one step per sample for the clustering    *)
(* statistic, one per path-length attempt, one for the return.  `frame`    *)
(* holds its arguments n, e and its locals i, j, c, a, randcluster,        *)
(* randavgpathl.                                                           *)

\* the plays whose sampler runs are explored, as segment sequences: the
\* graphs without nodes, of one node, of connected and of unconnected pairs
\* and triples, and one of four nodes and three edges, on which a draw can
\* come out connected or not
SamplerPlays ==
  {<<>>,
   <<{"A"}>>,
   <<{"A", "B"}>>,
   <<{"A"}, {"B"}>>,
   <<{"A", "B"}, {"B", "C"}>>,
   <<{"A", "B"}, {"C"}>>,
   <<{"A", "B", "C"}, {"D"}>>}

\* the declared characters of these plays
SamplerPersonae == <<"A", "B", "C", "D">>

Speakers(segs) == UNION {segs[k] : k \in DOMAIN segs}

\* the object when get_graph_metrics calls randomize_graph (line 257)
EnteringSampler(segs) ==
  LET graph == create_graph(segs)
      T == get_central_characters(get_centrality_ranks(get_character_ranks(
             get_character_frequencies(
               analyze_characters(NewTable(SamplerPersonae), graph), segs))))
      giant == IF graph.node = {} THEN {}
               ELSE CHOOSE cmp \in LargestComponents(graph) : TRUE
      out == analyze_graph(graph, DefaultRandomization, giant)
  IN /\ segments = segs
     /\ personae = SamplerPersonae
     /\ pc = "randomize_graph"
     /\ G = graph
     /\ centralities = T
     /\ randomization = out.randomization
     /\ graph_metrics = out.values
     /\ top_ranked = None
     /\ fault = NoFault
     /\ frame = [n |-> out.values.charcount, e |-> out.values.edgecount,
                 i |-> 0, j |-> 0, c |-> 0, a |-> 0,
                 randcluster |-> SumOf(0), randavgpathl |-> SumOf(0),
                 at |-> "clustering"]

SamplerInit == \E segs \in SamplerPlays : EnteringSampler(segs)

\* what nx.average_shortest_path_length does on the graph of one draw
DrawOutcomes(nn, ee) ==
  (IF CanDrawConnected(nn, ee) THEN {"connected"} ELSE {})
  \cup (IF CanDrawFailing(nn, ee) THEN {"failing"} ELSE {})

\* x += value, which raises TypeError when x is the string "NaN"
AddValue(x) == IF IsNumber(x) THEN SumOf(x.sum_of + 1) ELSE Raise("TypeError")

\* lines 433-439: the clustering statistic of sample i, and j = 0
SampleClusteringStep(f) ==
  IF ClusteringRaises(f.n)
  THEN [f EXCEPT !.j = 0, !.at = "path_length"]
  ELSE [f EXCEPT !.randcluster = AddValue(f.randcluster), !.c = f.c + 1,
                 !.j = 0, !.at = "path_length"]

\* the while loop with the give-up branch starting the count again instead
\* of leaving the loop
attempt_again_after_giving_up(f, drawn) ==
  LET j1 == f.j + 1
      added == AddValue(f.randavgpathl)
  IN IF drawn = "connected" /\ ~Raises(added)
     THEN [f EXCEPT !.j = j1, !.randavgpathl = added, !.a = f.a + 1,
                    !.i = f.i + 1, !.at = "clustering"]
     ELSE IF j1 > RetryLimit
          THEN [f EXCEPT !.j = 0, !.randavgpathl = NaN]
          ELSE [f EXCEPT !.j = j1]

\* lines 441-452: one turn of the while loop, on a draw with the given outcome
AttemptPathLengthStep(f, drawn) ==
  LET j1 == f.j + 1
      added == AddValue(f.randavgpathl)
  IN IF drawn = "connected" /\ ~Raises(added)
     THEN [f EXCEPT !.j = j1, !.randavgpathl = added, !.a = f.a + 1,
                    !.i = f.i + 1, !.at = "clustering"]
     ELSE IF j1 > RetryLimit
          THEN [f EXCEPT !.j = j1, !.randavgpathl = NaN,
                         !.i = f.i + 1, !.at = "clustering"]
          ELSE [f EXCEPT !.j = j1]

\* lines 453-461
SamplerReturnStep(f) ==
  [f EXCEPT !.randcluster = DivideOrNaN(f.randcluster, f.c),
            !.randavgpathl = DivideOrNaN(f.randavgpathl, f.a),
            !.at = "returned"]

SampleClustering ==
  /\ pc = "randomize_graph"
  /\ frame.at = "clustering"
  /\ frame.i < randomization
  /\ frame' = SampleClusteringStep(frame)
  /\ UNCHANGED <<segments, personae, pc, G, centralities, randomization,
                 graph_metrics, top_ranked, fault>>

AttemptPathLength ==
  /\ pc = "randomize_graph"
  /\ frame.at = "path_length"
  /\ \E drawn \in DrawOutcomes(frame.n, frame.e) :
       frame' = AttemptPathLengthStep(frame, drawn)
  /\ UNCHANGED <<segments, personae, pc, G, centralities, randomization,
                 graph_metrics, top_ranked, fault>>

SamplerReturn ==
  /\ pc = "randomize_graph"
  /\ frame.at = "clustering"
  /\ frame.i >= randomization
  /\ frame' = SamplerReturnStep(frame)
  /\ UNCHANGED <<segments, personae, pc, G, centralities, randomization,
                 graph_metrics, top_ranked, fault>>

SamplerNext ==
  \/ SampleClustering
  \/ AttemptPathLength
  \/ SamplerReturn

SamplerSpec == SamplerInit /\ [][SamplerNext]_vars

\* the interpreter keeps executing randomize_graph: while a statement of it
\* is left to run, one runs
SamplerFairSpec == SamplerInit /\ [][SamplerNext]_vars /\ WF_vars(SamplerNext)

----------------------------------------------------------------------------
(* Properties.  Those about the construction are checked under Spec, those *)
(* about the sampler's loop under SamplerSpec.                             *)

BeforeGraph == {"create_graph"}

\* the segments in which both u and v occur
CoOccurrences(u, v) == {k \in DOMAIN segments : u \in segments[k] /\ v \in segments[k]}

\* C1: the graph create_graph returns has exactly the characters of the
\* segments as its nodes, an edge between two distinct characters exactly
\* when some segment holds both, the number of such segments as the edge's
\* weight, and no self-loop.
C1_InteractionGraph ==
  pc \notin BeforeGraph =>
    /\ G.node = Speakers(segments)
    /\ \A u \in Speakers(segments) : \A v \in Speakers(segments) \ {u} :
         {u, v} \in Edges(G) <=> CoOccurrences(u, v) # {}
    /\ \A edge \in Edges(G) :
         /\ Cardinality(edge) = 2
         /\ edge \subseteq Speakers(segments)
         /\ \A u \in edge : \A v \in edge \ {u} :
              G.weight[edge] = Cardinality(CoOccurrences(u, v))

\* the same statement for plays in which no character's identifier is the
\* decimal string of a segment index
NoSegmentNamedCharacter ==
  \A k \in DOMAIN segments : SourceOf(k - 1) \notin Speakers(segments)

C1_InteractionGraphDistinctNames ==
  NoSegmentNamedCharacter => C1_InteractionGraph

\* the rows whose value in a column is the column's maximum
Maximal(column) ==
  {r \in Valued(column) : \A q \in Valued(column) : ~RatLess(column[r], column[q])}

\* get_character_ranks has run
Ranked == \A metric \in Metrics : RankColOf(metric) \in DOMAIN centralities.col

\* a row without a value (nan) has no rank (nan); the rows with a value are
\* ranked among themselves
DenseRanked(value, rank) ==
  LET rows == Valued(value)
      distinct == {value[r] : r \in rows}
  IN /\ DOMAIN rank = DOMAIN value
     /\ Valued(rank) = rows
     /\ \A r \in rows : \A q \in rows :
          /\ rank[r] = rank[q] <=> value[r] = value[q]
          /\ RatLess(value[q], value[r]) => RatLess(rank[r], rank[q])
     /\ \A r \in Maximal(value) : rank[r] = Int2Rat(1)
     /\ {rank[r] : r \in rows} = {Int2Rat(k) : k \in 1..Cardinality(distinct)}

\* C2: for each of the four metrics the rank column is a dense descending
\* ranking of the value column: equal ranks exactly for equal values, a
\* larger value a strictly smaller rank, rank 1 for the largest value, and
\* the ranks used are exactly 1..k for k distinct values.
C2_DenseRanks ==
  Ranked =>
    \A metric \in Metrics :
      DenseRanked(centralities.col[ColOf(metric)],
                  centralities.col[RankColOf(metric)])

\* a metric with fewer distinct values than rows and more than one value
C2_Witness ==
  /\ pc = "get_centrality_ranks"
  /\ \E metric \in Metrics :
       LET value == centralities.col[ColOf(metric)]
           distinct == {value[r] : r \in DOMAIN value}
       IN /\ Cardinality(distinct) >= 2
          /\ Cardinality(distinct) < Cardinality(DOMAIN value)
          /\ Cardinality(Maximal(value)) >= 2

FiveRankColumns == {RankColOf(metric) : metric \in Metrics} \cup {avg_centrality_rank}

FiveRankAverage(r) ==
  RatDivInt(RatSum([c \in FiveRankColumns |-> SkipNA(centralities.col[c][r])],
                   FiveRankColumns), 5)

LowestFiveRankAverage ==
  {r \in centralities.index :
     \A q \in centralities.index : ~RatLess(FiveRankAverage(q), FiveRankAverage(r))}

\* C3: the central character is decided by the per-character average of
\* degree_rank, closeness_rank, betweenness_rank, frequency_rank and
\* avg_centrality_rank alone: the one character with the lowest average, or
\* SEVERAL when two or more characters have it.
C3_CentralCharacter ==
  "central_character" \in DOMAIN graph_metrics =>
    graph_metrics.central_character =
      IF Cardinality(LowestFiveRankAverage) = 1
      THEN CHOOSE r \in LowestFiveRankAverage : TRUE
      ELSE SEVERAL

\* a play with several rows and one central character
C3_Witness ==
  /\ "central_character" \in DOMAIN graph_metrics
  /\ Cardinality(centralities.index) >= 3
  /\ graph_metrics.central_character \in centralities.index
  /\ \E r \in centralities.index :
       centralities.col[composite_centrality][r] # FiveRankAverage(r)

\* a play in which several characters share the lowest average
C3_WitnessSeveral ==
  /\ "central_character" \in DOMAIN graph_metrics
  /\ graph_metrics.central_character = SEVERAL
  /\ Cardinality(LowestFiveRankAverage) >= 2

\* C4: a metric whose value column has one character at its maximum reports
\* that character.
C4_TopRankedUnique ==
  "ok" \in DOMAIN top_ranked =>
    \A metric \in Metrics :
      LET top == Maximal(centralities.col[ColOf(metric)])
      IN Cardinality(top) = 1 => top_ranked.ok[metric] \in top

\* C5: a metric whose value column has two or more characters at its
\* maximum reports SEVERAL.
C5_TopRankedTie ==
  "ok" \in DOMAIN top_ranked =>
    \A metric \in Metrics :
      LET top == Maximal(centralities.col[ColOf(metric)])
      IN Cardinality(top) >= 2 => top_ranked.ok[metric] = SEVERAL

\* analyze_graph took the largest-component fallback: the graph has nodes and
\* is not connected
TookFallback == G.node # {} /\ Cardinality(Components(G)) > 1

\* C8: the sample budget is 1000 until analyze_graph has run, and from then
\* on 50 if analyze_graph took the largest-component fallback and 1000 if
\* not: it is that when the sampler starts and stays so.
C8_SampleBudget ==
  randomization = IF "charcount" \in DOMAIN graph_metrics /\ TookFallback
                  THEN 50 ELSE 1000

C8_Witness ==
  /\ pc = "randomize_graph"
  /\ TookFallback
  /\ randomization = 50

C8_WitnessConnected ==
  /\ pc = "randomize_graph"
  /\ Cardinality(G.node) >= 2
  /\ ~TookFallback
  /\ randomization = 1000

SymmetricDifference(S, T) == (S \ T) \cup (T \ S)

\* get_graph_metrics has made its call of get_drama_change_rate_metrics
ChangeRateCalled ==
  "all_in_index" \in DOMAIN graph_metrics /\ pc # "get_drama_change_rate_metrics"

\* C10: a play of N >= 1 segments has N-1 change rates, the i-th being
\* |S_i symmetric-difference S_(i+1)| / |S_i union S_(i+1)|, each in [0,1],
\* 0 exactly for identical sets and 1 exactly for disjoint ones; the rate of
\* every adjacent pair is defined.
C10_ChangeRates ==
  (ChangeRateCalled /\ Len(segments) >= 1) =>
    /\ "change_rates" \in DOMAIN graph_metrics
    /\ Len(graph_metrics.change_rates) = Len(segments) - 1
    /\ \A k \in 1..(Len(segments) - 1) :
         LET S == segments[k]
             T == segments[k + 1]
             rate == graph_metrics.change_rates[k]
         IN /\ rate.num * Cardinality(S \cup T)
                 = rate.den * Cardinality(SymmetricDifference(S, T))
            /\ 0 <= rate.num /\ rate.num <= rate.den
            /\ rate = Int2Rat(0) <=> S = T
            /\ rate = Int2Rat(1) <=> S \cap T = {}

\* the same for the plays in which no two adjacent segments are both empty
NoEmptyAdjacentPair ==
  \A k \in 1..(Len(segments) - 1) : segments[k] \cup segments[k + 1] # {}

C10_ChangeRatesNonEmpty ==
  NoEmptyAdjacentPair => C10_ChangeRates

\* C6: a sample makes at most 50 path-length attempts.
C6_AtMostFiftyAttempts ==
  frame.at # "idle" => frame.j <= RetryLimit

\* what the loop does: a sample that gives up has made 51 attempts
C6_AtMostFiftyOneAttempts ==
  frame.at # "idle" => frame.j <= RetryLimit + 1

\* C7: a sample that runs out of attempts costs only itself: with at least
\* one successful sample the path-length result is a number, the sum of the
\* successful samples' values over their count.
C7_ExhaustionIsLocal ==
  (frame.at = "returned" /\ frame.a > 0) =>
    frame.randavgpathl = [sum_of |-> frame.a, over |-> frame.a]

\* C9: each statistic has its own sum and counter, the counter counting the
\* values in the sum, and each result is its sum over its counter, or "NaN"
\* when the counter is 0.
C9_IndependentAccumulators ==
  /\ (frame.at \in {"clustering", "path_length"} /\ IsNumber(frame.randcluster))
       => frame.randcluster.sum_of = frame.c
  /\ (frame.at \in {"clustering", "path_length"} /\ IsNumber(frame.randavgpathl))
       => frame.randavgpathl.sum_of = frame.a
  /\ frame.at = "returned" =>
       /\ frame.randcluster = IF frame.c = 0 THEN NaN
                              ELSE [sum_of |-> frame.c, over |-> frame.c]
       /\ frame.randavgpathl = IF frame.a = 0 THEN NaN
                               ELSE [sum_of |-> frame.a, over |-> frame.a]

\* the step-by-step sampler ends with one of the results the one-step
\* randomize_graph of Spec can give
SamplerAgrees ==
  frame.at = "returned" =>
    <<frame.randavgpathl, frame.randcluster>>
      \in randomize_graph(frame.n, frame.e, randomization)

\* the number of distinct characters seen in segments 1..i
SeenBy(i) == Cardinality(UNION {segments[k] : k \in 1..i})

\* the positions at which every declared character has been seen
AllSeenAt == {i \in 1..Len(segments) : SeenBy(i) = Len(personae)}

\* C11: all_in_index is p/N for the smallest position p at which the
\* characters seen in segments 1..p are as many as the declared characters,
\* then in (0,1]; it is the undefined value when no position is such; the
\* number of characters seen never decreases along the segments.
C11_AllInIndex ==
  "all_in_index" \in DOMAIN graph_metrics =>
    LET value == graph_metrics.all_in_index
    IN /\ \A i \in 1..(Len(segments) - 1) : SeenBy(i) <= SeenBy(i + 1)
       /\ AllSeenAt = {} => value = None
       /\ AllSeenAt # {} =>
            LET p == CHOOSE i \in AllSeenAt : \A h \in AllSeenAt : i <= h
            IN /\ value # None
               /\ value.num * Len(segments) = value.den * p
               /\ 0 < value.num /\ value.num <= value.den

\* the last declared character enters after the first segment and before
\* the last
C11_Witness ==
  /\ "all_in_index" \in DOMAIN graph_metrics
  /\ Len(segments) = 3
  /\ graph_metrics.all_in_index = Rat(2, 3)
  /\ Len(personae) >= 2

\* a declared character never speaks
C11_WitnessUndefined ==
  /\ "all_in_index" \in DOMAIN graph_metrics
  /\ Len(segments) >= 2
  /\ Speakers(segments) # {}
  /\ graph_metrics.all_in_index = None

\* the segments that hold the reported central character
CentralIn == {i \in 1..Len(segments) : graph_metrics.central_character \in segments[i]}

\* C12: central_character_entry_index is p/N for the first segment p that
\* holds the reported central character, then in (0,1]; it is the undefined
\* value when the central character is SEVERAL or is in no segment.
C12_CentralCharacterEntry ==
  "central_character_entry_index" \in DOMAIN graph_metrics =>
    LET value == graph_metrics.central_character_entry_index
    IN IF graph_metrics.central_character = SEVERAL \/ CentralIn = {}
       THEN value = None
       ELSE LET p == CHOOSE i \in CentralIn : \A h \in CentralIn : i <= h
            IN /\ value # None
               /\ value.num * Len(segments) = value.den * p
               /\ 0 < value.num /\ value.num <= value.den

\* no declared character bears the name that is the tie sentinel
NoCharacterNamedSeveral == SEVERAL \notin Names(personae)

\* what holds of the entry index: the statement for the plays in which no
\* character is named like the sentinel
C12_CentralCharacterEntryOtherNames ==
  NoCharacterNamedSeveral => C12_CentralCharacterEntry

\* the central character enters after the first segment and stays
C12_Witness ==
  /\ "central_character_entry_index" \in DOMAIN graph_metrics
  /\ graph_metrics.central_character # SEVERAL
  /\ Len(segments) = 3
  /\ CentralIn = {2, 3}
  /\ graph_metrics.central_character_entry_index = Rat(2, 3)

\* no central character, no entry
C12_WitnessSeveral ==
  /\ "central_character_entry_index" \in DOMAIN graph_metrics
  /\ graph_metrics.central_character = SEVERAL
  /\ Cardinality(Speakers(segments)) >= 2
  /\ graph_metrics.central_character_entry_index = None

\* a central character who is in no segment
C12_WitnessAbsent ==
  /\ "central_character_entry_index" \in DOMAIN graph_metrics
  /\ graph_metrics.central_character # SEVERAL
  /\ CentralIn = {}

\* C13: once the object is constructed the rows of the character table are
\* exactly the nodes of the graph, one row for each node; a declared
\* character who is in no segment has no row.
C13_RowsAreNodes ==
  pc = "constructed" => centralities.index = G.node

\* what the construction gives where analyze_characters returned: every
\* node has its row, and every row is a node, a speaker or a declared entry
C13_NodesHaveRows ==
  (ColOf("closeness") \in DOMAIN centralities.col /\ fault = NoFault) =>
    /\ G.node \subseteq centralities.index
    /\ {DeclaredRow(k) : k \in DOMAIN personae} \subseteq centralities.index
    /\ centralities.index \subseteq
         {DeclaredRow(k) : k \in DOMAIN personae} \cup G.node \cup Speakers(segments)

\* a declared character who speaks has the row of the declaration, which is
\* ranked, beside the row of the node
C13_DeclaredRowRanked ==
  /\ pc = "constructed"
  /\ \E k \in DOMAIN personae :
       /\ personae[k] \in G.node
       /\ personae[k] \in centralities.index
       /\ DeclaredRow(k) \in Valued(centralities.col[RankColOf("frequency")])

\* C14: no computation of the analysis ends in an exception, whatever the
\* play: the construction never stops at a fault and get_top_ranked_chars
\* returns.
C14_NoUnhandledFault ==
  /\ pc # "fault"
  /\ fault = NoFault
  /\ ~Raises(top_ranked)

\* the plays that have a segment, a declared character and no two adjacent
\* segments without speakers
RegularPlay ==
  /\ Len(segments) >= 1
  /\ Len(personae) >= 1
  /\ NoEmptyAdjacentPair

\* on those plays nothing raises but pandas on the dictionary labels (the
\* row lookup, and apply naming a row)
C14_NoFaultOnRegularPlays ==
  RegularPlay => (fault \in {NoFault, "TypeError"} /\ ~Raises(top_ranked))

\* the construction stopped before the final scene size, the central
\* character and the last characters were computed
C14_FaultBlocksSiblings ==
  /\ pc = "fault"
  /\ fault # "TypeError"
  /\ Len(personae) >= 1
  /\ "final_scene_size_index" \notin DOMAIN graph_metrics
  /\ "central_character" \notin DOMAIN graph_metrics
  /\ "characters_last_in" \notin DOMAIN graph_metrics

\* C15: whichever metric is named, get_top_ranked_chars reports what it
\* reports for closeness.
C15_AlwaysClosenessResult ==
  "ok" \in DOMAIN top_ranked =>
    \A metric \in Metrics : top_ranked.ok[metric] = top_ranked.ok["closeness"]

\* the rows whose closeness value equals the maximum of the metric's column
ClosenessAtMaximumOf(metric) ==
  LET column == centralities.col[ColOf(metric)]
      closeness == centralities.col[ColOf("closeness")]
  IN {r \in Valued(closeness) :
        /\ closeness[r] \in {column[q] : q \in Valued(column)}
        /\ \A q \in Valued(column) : ~RatLess(closeness[r], column[q])}

\* C15, amended: under each metric get_top_ranked_chars reports the one
\* character whose closeness value equals the maximum of that metric's value
\* column, and SEVERAL when no character or more than one has such a
\* closeness; the results under different metrics can differ.
C15_ClosenessAgainstMetricMaximum ==
  "ok" \in DOMAIN top_ranked =>
    \A metric \in Metrics :
      top_ranked.ok[metric] =
        IF Cardinality(ClosenessAtMaximumOf(metric)) = 1
        THEN CHOOSE r \in ClosenessAtMaximumOf(metric) : TRUE
        ELSE SEVERAL

\* closeness is tied at its maximum, and betweenness reports the one
\* character whose closeness is the betweenness maximum
C15_Witness ==
  /\ "ok" \in DOMAIN top_ranked
  /\ top_ranked.ok["closeness"] = SEVERAL
  /\ Cardinality(Maximal(centralities.col[ColOf("closeness")])) >= 2
  /\ top_ranked.ok["betweenness"] \in centralities.index

\* C16: randomize_graph terminates whatever the draws are: no sample makes
\* more than a fixed number of path-length attempts, and the sampler
\* eventually returns its pair of results.
C16_SamplerTerminates ==
  /\ [](frame.at # "idle" => frame.j <= RetryLimit + 1)
  /\ <>(frame.at = "returned")

\* the sampler returned after all its samples, one of which gave up and
\* left the later ones to fail
C16_Witness ==
  /\ frame.at = "returned"
  /\ frame.i = randomization
  /\ frame.a >= 1
  /\ frame.a < randomization
  /\ frame.j = RetryLimit + 1

====
